---- MODULE Spec2Model ----
(***************************************************************************)
(* Dispatcher and collaboration engine of the clothing-sales multi-agent   *)
(* consultant: SmartAgentDispatcher (src/agents/agent_dispatcher.py) and    *)
(* SmartCollaborationSystem (src/agents/smart_collaboration.py).            *)
(*                                                                         *)
(* A turn is one call of SmartAgentDispatcher.process_message.  The calls   *)
(* are asyncio coroutines: a turn runs atomically between two awaits of an  *)
(* external party (the analysis LLM, an agent), and turns interleave at     *)
(* those awaits.  Text is modelled as sequences of character tokens: an     *)
(* ASCII letter or digit is its own token, any other character is the token *)
(* "uXXXX" of its code point.                                               *)
(***************************************************************************)
EXTENDS Naturals, Sequences, FiniteSets

VARIABLES
  sessions,   \* SmartAgentDispatcher.sessions: session key -> session object (0: no entry)
  heap,       \* the SmartSession objects, by object identity
  turn,       \* the process_message coroutines in flight, one per slot
  arrivals,   \* number of process_message calls so far (the clock of the model)
  stats,      \* SmartAgentDispatcher.stats
  agentPerf,  \* SmartCollaborationSystem._agent_performance
  cleanup     \* the cleanup_inactive_sessions calls: how many, and the last one's argument and return value

vars == <<sessions, heap, turn, arrivals, stats, agentPerf, cleanup>>

----------------------------------------------------------------------------
(* Bounds of the model                                                      *)

\* process_message calls in one behaviour of Spec
MaxTurns == 2
\* process_message calls in one behaviour of SpecConc
MaxTurnsConc == 3
\* process_message calls in one behaviour of SpecRoute
MaxTurnsRoute == 3
\* process_message calls in one behaviour of SpecLong
MaxTurnsLong == 11
\* process_message calls in one behaviour of SpecStore
MaxTurnsStore == 3
\* cleanup_inactive_sessions calls in one behaviour of SpecStore
MaxSweeps == 2
\* the largest inactive_hours a cleanup is called with, counted in arrivals
MaxIdleHours == 2
\* coroutines of process_message that may be in flight at once
NumSlots == 2

Slots == 1..NumSlots

----------------------------------------------------------------------------
(* Keyword tables of _apply_override_rules                                  *)

\* sales_keywords = [购买, 买, 下单, 推荐, 价格, 优惠, 折扣, 产品, 商品, 衣服, 服装, 上衣, 裤子, 裙子, 外套, 衬衫, t恤]
sales_keywords ==
  { <<"u8D2D", "u4E70">>,
    <<"u4E70">>,
    <<"u4E0B", "u5355">>,
    <<"u63A8", "u8350">>,
    <<"u4EF7", "u683C">>,
    <<"u4F18", "u60E0">>,
    <<"u6298", "u6263">>,
    <<"u4EA7", "u54C1">>,
    <<"u5546", "u54C1">>,
    <<"u8863", "u670D">>,
    <<"u670D", "u88C5">>,
    <<"u4E0A", "u8863">>,
    <<"u88E4", "u5B50">>,
    <<"u88D9", "u5B50">>,
    <<"u5916", "u5957">>,
    <<"u886C", "u886B">>,
    <<"t", "u6064">> }

\* styling_keywords = [搭配, 穿搭, 尺码, 风格, 颜色, 休闲, 通勤, 正式, 约会, 运动, 街头, 简约, 复古, 法式, 韩系, 日系, 商务, 职场, 上班, 聚会, 旅行]
styling_keywords ==
  { <<"u642D", "u914D">>,
    <<"u7A7F", "u642D">>,
    <<"u5C3A", "u7801">>,
    <<"u98CE", "u683C">>,
    <<"u989C", "u8272">>,
    <<"u4F11", "u95F2">>,
    <<"u901A", "u52E4">>,
    <<"u6B63", "u5F0F">>,
    <<"u7EA6", "u4F1A">>,
    <<"u8FD0", "u52A8">>,
    <<"u8857", "u5934">>,
    <<"u7B80", "u7EA6">>,
    <<"u590D", "u53E4">>,
    <<"u6CD5", "u5F0F">>,
    <<"u97E9", "u7CFB">>,
    <<"u65E5", "u7CFB">>,
    <<"u5546", "u52A1">>,
    <<"u804C", "u573A">>,
    <<"u4E0A", "u73ED">>,
    <<"u805A", "u4F1A">>,
    <<"u65C5", "u884C">> }

\* order_keywords = [订单, 查询订单, 订单查询, 订单号, 物流, 快递, 发货, 收货, 配送, 退货, 退款, 售后, 退换货, 跟踪, 物流查询, 快递查询]
order_keywords ==
  { <<"u8BA2", "u5355">>,
    <<"u67E5", "u8BE2", "u8BA2", "u5355">>,
    <<"u8BA2", "u5355", "u67E5", "u8BE2">>,
    <<"u8BA2", "u5355", "u53F7">>,
    <<"u7269", "u6D41">>,
    <<"u5FEB", "u9012">>,
    <<"u53D1", "u8D27">>,
    <<"u6536", "u8D27">>,
    <<"u914D", "u9001">>,
    <<"u9000", "u8D27">>,
    <<"u9000", "u6B3E">>,
    <<"u552E", "u540E">>,
    <<"u9000", "u6362", "u8D27">>,
    <<"u8DDF", "u8E2A">>,
    <<"u7269", "u6D41", "u67E5", "u8BE2">>,
    <<"u5FEB", "u9012", "u67E5", "u8BE2">> }

\* sales_strong_keywords = [购买, 买, 下单, 推荐, 价格, 优惠, 折扣, 促销, 活动, 报价]
sales_strong_keywords ==
  { <<"u8D2D", "u4E70">>,
    <<"u4E70">>,
    <<"u4E0B", "u5355">>,
    <<"u63A8", "u8350">>,
    <<"u4EF7", "u683C">>,
    <<"u4F18", "u60E0">>,
    <<"u6298", "u6263">>,
    <<"u4FC3", "u9500">>,
    <<"u6D3B", "u52A8">>,
    <<"u62A5", "u4EF7">> }

\* affirmative_keywords = [可以, 好的, 好, 行, 没问题, 是的, 嗯, ok, 好啊, 没事, 确认]
affirmative_keywords ==
  { <<"u53EF", "u4EE5">>,
    <<"u597D", "u7684">>,
    <<"u597D">>,
    <<"u884C">>,
    <<"u6CA1", "u95EE", "u9898">>,
    <<"u662F", "u7684">>,
    <<"u55EF">>,
    <<"o", "k">>,
    <<"u597D", "u554A">>,
    <<"u6CA1", "u4E8B">>,
    <<"u786E", "u8BA4">> }

\* transfer_to_sales_keywords = [转销售, 转接销售, 销售智能体, 销售顾问, 找销售, 请销售帮忙]
transfer_to_sales_keywords ==
  { <<"u8F6C", "u9500", "u552E">>,
    <<"u8F6C", "u63A5", "u9500", "u552E">>,
    <<"u9500", "u552E", "u667A", "u80FD", "u4F53">>,
    <<"u9500", "u552E", "u987E", "u95EE">>,
    <<"u627E", "u9500", "u552E">>,
    <<"u8BF7", "u9500", "u552E", "u5E2E", "u5FD9">> }

\* transfer_to_order_keywords = [转订单, 转接订单, 订单智能体, 订单顾问, 找订单, 请订单帮忙, 转到订单智能体]
transfer_to_order_keywords ==
  { <<"u8F6C", "u8BA2", "u5355">>,
    <<"u8F6C", "u63A5", "u8BA2", "u5355">>,
    <<"u8BA2", "u5355", "u667A", "u80FD", "u4F53">>,
    <<"u8BA2", "u5355", "u987E", "u95EE">>,
    <<"u627E", "u8BA2", "u5355">>,
    <<"u8BF7", "u8BA2", "u5355", "u5E2E", "u5FD9">>,
    <<"u8F6C", "u5230", "u8BA2", "u5355", "u667A", "u80FD", "u4F53">> }

\* transfer_to_knowledge_keywords = [转知识, 转接知识, 知识智能体, 知识顾问, 找知识, 请知识帮忙, 转到知识智能体]
transfer_to_knowledge_keywords ==
  { <<"u8F6C", "u77E5", "u8BC6">>,
    <<"u8F6C", "u63A5", "u77E5", "u8BC6">>,
    <<"u77E5", "u8BC6", "u667A", "u80FD", "u4F53">>,
    <<"u77E5", "u8BC6", "u987E", "u95EE">>,
    <<"u627E", "u77E5", "u8BC6">>,
    <<"u8BF7", "u77E5", "u8BC6", "u5E2E", "u5FD9">>,
    <<"u8F6C", "u5230", "u77E5", "u8BC6", "u667A", "u80FD", "u4F53">> }

\* transfer_to_styling_keywords = [转穿搭, 转接穿搭, 穿搭智能体, 穿搭顾问, 找穿搭, 请穿搭帮忙, 转到穿搭智能体]
transfer_to_styling_keywords ==
  { <<"u8F6C", "u7A7F", "u642D">>,
    <<"u8F6C", "u63A5", "u7A7F", "u642D">>,
    <<"u7A7F", "u642D", "u667A", "u80FD", "u4F53">>,
    <<"u7A7F", "u642D", "u987E", "u95EE">>,
    <<"u627E", "u7A7F", "u642D">>,
    <<"u8BF7", "u7A7F", "u642D", "u5E2E", "u5FD9">>,
    <<"u8F6C", "u5230", "u7A7F", "u642D", "u667A", "u80FD", "u4F53">> }

\* "谢谢"
UThanks == <<"u8C22", "u8C22">>

\* "好的"
UOk == <<"u597D", "u7684">>

\* "好的，帮我查订单"
UOkOrder == <<"u597D", "u7684", "uFF0C", "u5E2E", "u6211", "u67E5", "u8BA2", "u5355">>

\* "约会穿什么"
UDate == <<"u7EA6", "u4F1A", "u7A7F", "u4EC0", "u4E48">>

\* "我想买衬衫"
UBuy == <<"u6211", "u60F3", "u4E70", "u886C", "u886B">>

\* "转销售"
UToSales == <<"u8F6C", "u9500", "u552E">>

\* "OK"
UOkUpper == <<"O", "K">>

\* "转穿搭"
UToStyling == <<"u8F6C", "u7A7F", "u642D">>

\* "转知识"
UToKnowledge == <<"u8F6C", "u77E5", "u8BC6">>

\* "转订单"
UToOrder == <<"u8F6C", "u8BA2", "u5355">>

\* "买衣服怎么搭配"
UBuyStyle == <<"u4E70", "u8863", "u670D", "u600E", "u4E48", "u642D", "u914D">>

\* "衬衫怎么搭配"
UStyleShirt == <<"u886C", "u886B", "u600E", "u4E48", "u642D", "u914D">>

\* "快递到了怎么搭配"
UOrderStyle == << "u5FEB", "u9012", "u5230", "u4E86", "u600E", "u4E48", "u642D", "u914D" >>

----------------------------------------------------------------------------
(* Text helpers                                                            *)

\* str.lower() on one character
LowerChar(c) ==
  CASE c = "O" -> "o"
    [] c = "K" -> "k"
    [] c = "T" -> "t"
    [] OTHER -> c

\* content = (message.content or "").lower()
Lower(s) == [i \in 1..Len(s) |-> LowerChar(s[i])]

\* k in content, for strings
IsSubstring(k, s) ==
  \E i \in 0..(Len(s) - Len(k)) : SubSeq(s, i + 1, i + Len(k)) = k

\* contains_any(keywords), on the lowered content
contains_any(keywords, content) ==
  \E k \in keywords : IsSubstring(k, content)

\* what contains_any answers for each keyword table on a message content
Matches(content) ==
  [ sales |-> contains_any(sales_keywords, Lower(content)),
    styling |-> contains_any(styling_keywords, Lower(content)),
    order |-> contains_any(order_keywords, Lower(content)),
    sales_strong |-> contains_any(sales_strong_keywords, Lower(content)),
    affirmative |-> contains_any(affirmative_keywords, Lower(content)),
    transfer_to_sales |-> contains_any(transfer_to_sales_keywords, Lower(content)),
    transfer_to_order |-> contains_any(transfer_to_order_keywords, Lower(content)),
    transfer_to_knowledge |-> contains_any(transfer_to_knowledge_keywords, Lower(content)),
    transfer_to_styling |-> contains_any(transfer_to_styling_keywords, Lower(content)) ]

----------------------------------------------------------------------------
(* Collaboration analysis: analyze_collaboration_need and its validation    *)

\* the agent registry of SmartAgentDispatcher.__init__
KnownAgents ==
  {"reception_agent", "sales_agent", "order_agent", "knowledge_agent", "styling_agent"}

\* a collaboration_mode that is not a string (a JSON array or object)
UnhashableMode == "json_array"

\* an entry of recommended_agents; priority 0 and parallel FALSE stand for the
\* key being absent
Entry(aid, role, priority, parallel) ==
  [agent_id |-> aid, role |-> role, priority |-> priority, parallel |-> parallel]

\* the default analysis of analyze_collaboration_need
DefaultAnalysis ==
  [ requires_collaboration |-> FALSE,
    collaboration_mode |-> "none",
    recommended_agents |-> << Entry("reception_agent", "primary", 0, FALSE) >>,
    task_priority |-> "",
    fallback_agent |-> "" ]

\* the loop of _validate_collaboration_analysis over data["recommended_agents"];
\* an agent_id or role "" stands for a missing or empty value
RECURSIVE NormalizeAgents(_, _)
NormalizeAgents(agents, normalized) ==
  IF agents = << >> THEN normalized
  ELSE LET a    == Head(agents)
           role == IF a.role # "" THEN a.role
                   ELSE IF normalized = << >> THEN "primary" ELSE "support"
       IN  NormalizeAgents(Tail(agents),
             IF a.agent_id # ""
               THEN Append(normalized, Entry(a.agent_id, role, 0, FALSE))
               ELSE normalized)

\* _validate_collaboration_analysis(data, fallback)
ValidateCollaborationAnalysis(data) ==
  LET mode       == IF data.collaboration_mode # "" THEN data.collaboration_mode
                    ELSE IF data.requires_collaboration THEN "parallel" ELSE "none"
      normalized == NormalizeAgents(data.recommended_agents, << >>)
  IN  [ requires_collaboration |-> data.requires_collaboration,
        collaboration_mode |-> mode,
        recommended_agents |->
          IF normalized = << >>
            THEN << Entry("reception_agent", "primary", 0, FALSE) >>
            ELSE normalized,
        task_priority |-> "",
        fallback_agent |-> "" ]

\* analyze_collaboration_need: llm.parsed is FALSE when the LLM call raised,
\* returned no content or no parsable JSON
AnalyzeCollaborationNeed(llm) ==
  IF llm.parsed THEN ValidateCollaborationAnalysis(llm) ELSE DefaultAnalysis

----------------------------------------------------------------------------
(* _apply_override_rules                                                    *)

Max(a, b) == IF a >= b THEN a ELSE b

\* any(r.get("agent_id") == aid for r in recommended)
HasAgent(recommended, aid) ==
  \E i \in 1..Len(recommended) : recommended[i].agent_id = aid

\* a2 = {**a}; role = support; parallel = True; priority = max(m, a.get("priority", m))
Demote(a, m) ==
  [a EXCEPT !.role = "support", !.parallel = TRUE,
            !.priority = Max(m, IF a.priority = 0 THEN m ELSE a.priority)]

\* for a in recommended: keep the entries outside `skip`, demoted, optionally
\* leaving out agents already in the new list
RECURSIVE AppendDemoted(_, _, _, _, _)
AppendDemoted(new, recommended, skip, m, dedupe) ==
  IF recommended = << >> THEN new
  ELSE LET a    == Head(recommended)
           take == /\ a.agent_id # ""
                   /\ a.agent_id \notin skip
                   /\ (dedupe => ~HasAgent(new, a.agent_id))
       IN  AppendDemoted(IF take THEN Append(new, Demote(a, m)) ELSE new,
                         Tail(recommended), skip, m, dedupe)

\* for a in recommended: append a unchanged unless it is sales or a duplicate
RECURSIVE AppendUnchanged(_, _)
AppendUnchanged(new, recommended) ==
  IF recommended = << >> THEN new
  ELSE LET a    == Head(recommended)
           take == /\ a.agent_id # ""
                   /\ a.agent_id # "sales_agent"
                   /\ ~HasAgent(new, a.agent_id)
       IN  AppendUnchanged(IF take THEN Append(new, a) ELSE new, Tail(recommended))

\* the first knowledge_agent entry of recommended demoted to priority >= m, or
\* the default knowledge support
KnowledgeSupport(recommended, m) ==
  IF HasAgent(recommended, "knowledge_agent")
    THEN LET i == CHOOSE j \in 1..Len(recommended) :
                    /\ recommended[j].agent_id = "knowledge_agent"
                    /\ \A k \in 1..(j - 1) : recommended[k].agent_id # "knowledge_agent"
         IN  Demote(recommended[i], m)
    ELSE Entry("knowledge_agent", "support", m, TRUE)

Forced(an, recommended, mode, fallback) ==
  [an EXCEPT !.recommended_agents = recommended,
             !.collaboration_mode = mode,
             !.task_priority = "high",
             !.fallback_agent = fallback]

\* the confirmation of lines 212-220: an affirmative keyword, or a transfer
\* phrase for the pending target
Confirms(f, target) ==
  \/ f.affirmative
  \/ target = "sales_agent" /\ f.transfer_to_sales
  \/ target = "order_agent" /\ f.transfer_to_order
  \/ target = "knowledge_agent" /\ f.transfer_to_knowledge
  \/ target = "styling_agent" /\ f.transfer_to_styling

\* lines 209-222: the pending handoff is confirmed by this utterance
HandoffConfirmed(f, ctx) ==
  /\ ctx.handoff_pending = "true"
  /\ ctx.handoff_target # ""
  /\ Confirms(f, ctx.handoff_target)

\* lines 222-236: the confirmed target becomes primary
RuleHandoff(an, f, ctx) ==
  IF HandoffConfirmed(f, ctx)
    THEN Forced(an,
           AppendDemoted(<< Entry(ctx.handoff_target, "primary", 1, FALSE) >>,
                         an.recommended_agents, {ctx.handoff_target}, 2, TRUE),
           "consultation", ctx.handoff_target)
    ELSE an

\* lines 239-254: explicit transfer to order / knowledge / styling
RuleExplicitTransfer(an, f) ==
  IF f.transfer_to_order
    THEN Forced(an, << Entry("order_agent", "primary", 1, FALSE) >>,
                "consultation", "order_agent")
  ELSE IF f.transfer_to_knowledge
    THEN Forced(an, << Entry("knowledge_agent", "primary", 1, FALSE) >>,
                "consultation", "knowledge_agent")
  ELSE IF f.transfer_to_styling
    THEN Forced(an, << Entry("styling_agent", "primary", 1, FALSE) >>,
                "consultation", "styling_agent")
  ELSE an

\* lines 256-293: sales stickiness
RuleSalesSticky(an, f, current_agents) ==
  IF /\ \E i \in 1..Len(current_agents) : current_agents[i] = "sales_agent"
     /\ ~f.transfer_to_styling
     /\ ~f.order
    THEN LET rec == an.recommended_agents
             n1  == << Entry("sales_agent", "primary", 1, FALSE) >>
             n2  == IF /\ f.styling
                       /\ ~HasAgent(rec, "styling_agent")
                      THEN Append(n1, Entry("styling_agent", "support", 3, TRUE))
                      ELSE n1
             n3  == Append(n2, KnowledgeSupport(rec, 2))
         IN  Forced(an,
               AppendDemoted(n3, rec,
                 {"sales_agent", "styling_agent", "knowledge_agent"}, 3, TRUE),
               "consultation", "sales_agent")
    ELSE an

\* lines 295-320: styling intent without sales or order intent
RuleStylingOnly(an, f) ==
  IF /\ f.styling
     /\ ~f.sales
     /\ ~f.order
    THEN Forced(an,
           << Entry("styling_agent", "primary", 1, FALSE),
              Entry("sales_agent", "support", 2, FALSE),
              KnowledgeSupport(an.recommended_agents, 3) >>,
           "sequential", "sales_agent")
    ELSE an

\* lines 322-358: sales intent without order intent
RuleSalesIntent(an, f) ==
  IF /\ f.sales
     /\ ~f.order
    THEN LET rec == an.recommended_agents
             n1  == << Entry("sales_agent", "primary", 1, FALSE),
                       KnowledgeSupport(rec, 2) >>
             n2  == IF f.styling
                      THEN Append(n1, Entry("styling_agent", "support", 3, TRUE))
                      ELSE n1
         IN  Forced(an, AppendUnchanged(n2, rec), "consultation", "sales_agent")
    ELSE an

\* lines 360-381: styling and sales keywords together
RuleMixed(an, f, current_agents) ==
  IF /\ f.styling
     /\ f.sales
     /\ ~f.order
    THEN IF \/ \E i \in 1..Len(current_agents) : current_agents[i] = "sales_agent"
            \/ f.sales_strong
           THEN Forced(an,
                  << Entry("sales_agent", "primary", 1, FALSE),
                     Entry("styling_agent", "support", 2, FALSE),
                     Entry("knowledge_agent", "support", 3, TRUE) >>,
                  "consultation", "sales_agent")
           ELSE Forced(an,
                  << Entry("styling_agent", "primary", 1, FALSE),
                     Entry("sales_agent", "support", 2, FALSE),
                     Entry("knowledge_agent", "support", 3, TRUE) >>,
                  "sequential", "sales_agent")
    ELSE an

\* _apply_override_rules without its order block
RuleOrderAbsent(an, f) == an

\* lines 383-399: strong order intent
RuleOrder(an, f) ==
  IF f.order
    THEN Forced(an,
           AppendDemoted(<< Entry("order_agent", "primary", 1, FALSE) >>,
                         an.recommended_agents, {"order_agent"}, 2, TRUE),
           "consultation", "order_agent")
    ELSE an

\* lines 401-427: styling stickiness
RuleStylingSticky(an, f, current_agents) ==
  IF /\ \E i \in 1..Len(current_agents) : current_agents[i] = "styling_agent"
     /\ ~f.sales
     /\ ~f.order
    THEN LET rec == an.recommended_agents
             n1  == << Entry("styling_agent", "primary", 1, FALSE) >>
             n2  == IF ~HasAgent(rec, "sales_agent")
                      THEN Append(n1, Entry("sales_agent", "support", 2, FALSE))
                      ELSE n1
         IN  Forced(an,
               AppendDemoted(n2, rec, {"styling_agent", "sales_agent"}, 3, FALSE),
               "sequential", "sales_agent")
    ELSE an

\* next((a for a in recommended if a.get("role") == "primary"), None): its
\* index, 0 for None
FirstPrimary(recommended) ==
  IF \E i \in 1..Len(recommended) : recommended[i].role = "primary"
    THEN CHOOSE i \in 1..Len(recommended) :
           /\ recommended[i].role = "primary"
           /\ \A k \in 1..(i - 1) : recommended[k].role # "primary"
    ELSE 0

\* _apply_override_rules without its last block
RuleSafetyNetAbsent(an) == an

\* lines 429-440: a styling primary gets sales as support, in sequential mode
RuleSafetyNet(an) ==
  LET rec == an.recommended_agents
      p   == FirstPrimary(rec)
  IN  IF p # 0 /\ rec[p].agent_id = "styling_agent"
        THEN [an EXCEPT
               !.recommended_agents =
                 IF HasAgent(rec, "sales_agent") THEN rec
                 ELSE Append(rec, Entry("sales_agent", "support", 2, FALSE)),
               !.collaboration_mode = "sequential"]
        ELSE an

\* _apply_override_rules: the analysis it returns
ApplyOverrideRules(f, an, current_agents, ctx) ==
  LET a1 == RuleHandoff(an, f, ctx)
      a2 == RuleExplicitTransfer(a1, f)
      a3 == RuleSalesSticky(a2, f, current_agents)
      a4 == RuleStylingOnly(a3, f)
      a5 == RuleSalesIntent(a4, f)
      a6 == RuleMixed(a5, f, current_agents)
      a7 == RuleOrder(a6, f)
      a8 == RuleStylingSticky(a7, f, current_agents)
  IN  RuleSafetyNet(a8)

\* _apply_override_rules: what it does to session.context (line 237)
ContextAfterOverride(f, ctx) ==
  IF HandoffConfirmed(f, ctx)
    THEN [ctx EXCEPT !.handoff_pending = "false"]
    ELSE ctx

----------------------------------------------------------------------------
(* Sessions                                                                *)

\* session.context, restricted to the keys the dispatcher reads or writes:
\* "" stands for an absent key, has_results for last_collaboration_results
EmptyContext ==
  [handoff_pending |-> "", handoff_target |-> "", workflow_type |-> "",
   has_results |-> FALSE]

\* a SmartSession as its dataclass defaults build it
NewSession(user_id, session_id, now) ==
  [ user_id |-> user_id,
    session_id |-> session_id,
    current_agents |-> << >>,
    collaboration_tasks |-> << >>,
    context |-> EmptyContext,
    conversation_history |-> << >>,
    last_active |-> now,
    performance_metrics |->
      [present |-> FALSE, total_interactions |-> 0, successful_collaborations |-> 0] ]

\* session_key = f"{user_id}_{session_id}"
SessionKey(user_id, session_id) == user_id \o << "_" >> \o session_id

\* the user_message record of process_message; msg is the arrival number of
\* the message and stands for its timestamp and content
UserRecord(msg) ==
  [type |-> "user_message", msg |-> msg, agent_id |-> "",
   next_action |-> "", suggested_agents |-> << >>]

\* the agent_response record of _update_session_state; of the collaboration
\* result it stores, the primary's next_action and suggested_agents are kept
AgentRecord(msg, response) ==
  [type |-> "agent_response", msg |-> msg, agent_id |-> response.agent_id,
   next_action |-> response.next_action,
   suggested_agents |-> response.suggested_agents]

----------------------------------------------------------------------------
(* create_collaboration_task and execute_collaboration_task                 *)

\* [a["agent_id"] for a in recommended if role == "support" and agent_id]
RECURSIVE SupportIds(_)
SupportIds(recommended) ==
  IF recommended = << >> THEN << >>
  ELSE LET a == Head(recommended)
       IN  IF a.role = "support" /\ a.agent_id # ""
             THEN << a.agent_id >> \o SupportIds(Tail(recommended))
             ELSE SupportIds(Tail(recommended))

\* create_collaboration_task; `context or {}` keeps the session's own dict
\* unless it is empty, in which case the task gets a new empty dict
CreateCollaborationTask(analysis, msg, ctx) ==
  LET rec == analysis.recommended_agents
      p   == FirstPrimary(rec)
      sup == SupportIds(rec)
  IN  [ task_id |-> msg,
        workflow_type |->
          IF analysis.collaboration_mode # "" THEN analysis.collaboration_mode
          ELSE IF sup # << >> THEN "parallel" ELSE "single",
        primary_agent |-> IF p = 0 THEN "reception_agent" ELSE rec[p].agent_id,
        support_agents |-> sup,
        context_shared |-> ctx # EmptyContext ]

\* no response: the entry of an invocation that failed
NoResponse ==
  [content |-> << >>, confidence |-> 0, next_action |-> "",
   suggested_agents |-> << >>, metadata_is_map |-> TRUE]

\* the entry _invoke / _invoke_support returns: outcome.raised is the agent's
\* process_message raising, and an agent missing from the registry is reported
\* without a call
ResultEntry(agent_id, role, outcome) ==
  IF agent_id \notin KnownAgents
    THEN [agent_id |-> agent_id, role |-> role, error |-> "agent_not_found",
          response |-> NoResponse]
  ELSE IF outcome.raised
    THEN [agent_id |-> agent_id, role |-> role, error |-> "exception",
          response |-> NoResponse]
  ELSE [agent_id |-> agent_id, role |-> role, error |-> "",
        response |-> outcome.response]

\* lines 132-139: the support list and workflow the executor really uses
EffectiveSupportIds(task) ==
  IF task.primary_agent = "styling_agent"
     /\ ~(\E i \in 1..Len(task.support_agents) : task.support_agents[i] = "sales_agent")
    THEN Append(task.support_agents, "sales_agent")
    ELSE task.support_agents

EffectiveWorkflow(task) ==
  IF task.primary_agent = "styling_agent"
     /\ ~(\E i \in 1..Len(task.support_agents) : task.support_agents[i] = "sales_agent")
    THEN "sequential"
    ELSE task.workflow_type

\* no message: a turn whose supports have not been called
NoMessage == [derived |-> FALSE, content |-> << >>, source_agent |-> ""]

\* every support is handed the original message
OriginalMessage(task, content, primary_entry) ==
  [derived |-> FALSE, content |-> content, source_agent |-> ""]

\* lines 142-192: the message the supports are called with. In a sequential
\* workflow it is derived_msg, whose content is the primary response's content
\* and, for a primary entry without a response, the original content
\* (primary_resp.get("content", msg.content) on {}); otherwise it is msg
SupportMessage(task, content, primary_entry) ==
  IF EffectiveWorkflow(task) = "sequential"
    THEN [derived |-> TRUE,
          content |-> IF primary_entry.error = ""
                        THEN primary_entry.response.content ELSE content,
          source_agent |-> primary_entry.agent_id]
    ELSE [derived |-> FALSE, content |-> content, source_agent |-> ""]

\* the entries in the order the invocations finished, as a list that is
\* appended to on completion would hold them
CompletionOrder(entries, completed) ==
  [k \in 1..Len(completed) |-> entries[completed[k]]]

\* the entries up to the first invocation that raised, as a gather over
\* invocations without their own try/except would leave them
RECURSIVE UntilFailure(_, _)
UntilFailure(entries, completed) ==
  IF entries = << >> \/ Head(entries).error = "exception" THEN << >>
  ELSE << Head(entries) >> \o UntilFailure(Tail(entries), completed)

\* results.extend(await asyncio.gather(...)): gather returns the entries in
\* the order of its arguments; `entries` is indexed like support_ids and
\* `completed` lists the indices in the order the invocations finished
GatherResults(entries, completed) ==
  [i \in 1..Len(entries) |-> entries[i]]

\* lines 194-198: final_context = task["context"].copy() plus two keys,
\* copied when the executor returns
FinalContext(task, sessionContext, workflow) ==
  [ (IF task.context_shared THEN sessionContext ELSE EmptyContext)
      EXCEPT !.has_results = TRUE, !.workflow_type = workflow ]

\* lines 200-206
CollaborationResult(task, results, finalContext) ==
  [ success |-> TRUE,
    task_id |-> task.task_id,
    workflow_type |-> task.workflow_type,
    results |-> results,
    final_context |-> finalContext ]

----------------------------------------------------------------------------
(* _process_collaboration_result: the fused response and handoff detection  *)

\* "处理完成"
DefaultContent == <<"u5904", "u7406", "u5B8C", "u6210">>

\* "\n\n——\n商品推荐（销售智能体）：\n"
SalesSeparator ==
  <<"u000A", "u000A", "u2014", "u2014", "u000A", "u5546", "u54C1",
     "u63A8", "u8350", "uFF08", "u9500", "u552E", "u667A", "u80FD", "u4F53", "uFF09", "uFF1A", "u000A">>

NoCollaborationInfo ==
  [present |-> FALSE, task_id |-> 0, workflow_type |-> "",
   participating_agents |-> << >>, support_contents |-> << >>]

\* confidence is counted in tenths: 8 is 0.8
Response(content, agent_id, confidence, next_action, suggested, error, info) ==
  [ content |-> content, agent_id |-> agent_id, confidence |-> confidence,
    next_action |-> next_action, suggested_agents |-> suggested,
    error |-> error, collaboration_info |-> info ]

\* no response: the value of a turn that has nothing to return yet
NoReturn == Response(<< >>, "", 0, "", << >>, FALSE, NoCollaborationInfo)

\* lines 461-468
RetryResponse == Response(<< "retry_text" >>, "system", 5, "retry", << >>, TRUE, NoCollaborationInfo)

\* lines 471-477
ClarifyResponse == Response(<< "clarify_text" >>, "system", 3, "clarify", << >>, FALSE, NoCollaborationInfo)

\* lines 480-489: the index of the primary result
PrimaryResultIndex(results) ==
  IF FirstPrimary(results) # 0 THEN FirstPrimary(results) ELSE Len(results)

\* lines 515-528
RECURSIVE SupportContents(_, _)
SupportContents(results, primary_result) ==
  IF results = << >> THEN << >>
  ELSE LET r == Head(results)
       IN  IF r # primary_result /\ r.response.content # << >>
             THEN << [agent_id |-> r.agent_id, content |-> r.response.content] >>
                    \o SupportContents(Tail(results), primary_result)
             ELSE SupportContents(Tail(results), primary_result)

\* lines 530-543: the content of the first sales_agent entry, "" when there
\* is none
SalesContent(results) ==
  IF \E i \in 1..Len(results) : results[i].agent_id = "sales_agent"
    THEN LET i == CHOOSE j \in 1..Len(results) :
                    /\ results[j].agent_id = "sales_agent"
                    /\ \A k \in 1..(j - 1) : results[k].agent_id # "sales_agent"
         IN  results[i].response.content
    ELSE << >>

\* {**base_metadata, ...} raises when the primary's metadata is not a mapping
FuseRaises(result) ==
  /\ result.success
  /\ result.results # << >>
  /\ LET p == result.results[PrimaryResultIndex(result.results)]
     IN  p.error = "" /\ ~p.response.metadata_is_map

RECURSIVE AgentIds(_)
AgentIds(results) ==
  IF results = << >> THEN << >>
  ELSE << Head(results).agent_id >> \o AgentIds(Tail(results))

\* the contents of the entries of results, one after the other
RECURSIVE AllContents(_)
AllContents(results) ==
  IF results = << >> THEN << >>
  ELSE Head(results).response.content \o AllContents(Tail(results))

\* a fuser that appends the content of every support to the primary's
FusedAppending(result) ==
  IF ~result.success THEN RetryResponse
  ELSE IF result.results = << >> THEN ClarifyResponse
  ELSE
    LET results == result.results
        p       == results[PrimaryResultIndex(results)]
        has     == p.error = ""
        base    == IF has THEN p.response.content ELSE DefaultContent
    IN  Response(base \o AllContents(Tail(results)), p.agent_id,
          IF has THEN p.response.confidence ELSE 8,
          IF has THEN p.response.next_action ELSE "continue",
          IF has THEN p.response.suggested_agents ELSE << >>,
          FALSE,
          [ present |-> TRUE,
            task_id |-> result.task_id,
            workflow_type |-> result.workflow_type,
            participating_agents |-> AgentIds(results),
            support_contents |->
              IF Len(results) > 1 THEN SupportContents(results, p) ELSE << >> ])

\* _process_collaboration_result: the response it returns (lines 461-564)
FusedResponse(result) ==
  IF ~result.success THEN RetryResponse
  ELSE IF result.results = << >> THEN ClarifyResponse
  ELSE
    LET results == result.results
        p       == results[PrimaryResultIndex(results)]
        has     == p.error = ""
        base    == IF has THEN p.response.content ELSE DefaultContent
        sales   == SalesContent(results)
        content ==
          IF /\ result.workflow_type = "sequential"
             /\ p.agent_id = "styling_agent"
             /\ sales # << >>
            THEN base \o SalesSeparator \o sales
            ELSE base
    IN  Response(content, p.agent_id,
          IF has THEN p.response.confidence ELSE 8,
          IF has THEN p.response.next_action ELSE "continue",
          IF has THEN p.response.suggested_agents ELSE << >>,
          FALSE,
          [ present |-> TRUE,
            task_id |-> result.task_id,
            workflow_type |-> result.workflow_type,
            participating_agents |-> AgentIds(results),
            support_contents |->
              IF Len(results) > 1 THEN SupportContents(results, p) ELSE << >> ])

\* aid.strip().lower(), on the names agents are modelled to suggest
StripLower(aid) ==
  CASE aid = "Order" -> "order"
    [] aid = " sales " -> "sales"
    [] OTHER -> aid

\* normalize_agent_id (lines 574-584)
normalize_agent_id(aid) ==
  LET a == StripLower(aid)
  IN  CASE a = "sales" -> "sales_agent"
        [] a = "order" -> "order_agent"
        [] a = "knowledge" -> "knowledge_agent"
        [] a = "styling" -> "styling_agent"
        [] OTHER -> a

\* lines 588-597: the known agent a normalized suggestion maps to, "" for None;
\* u8BA2u5355 and u7A7Fu642D are the Chinese words for order and styling
MappedAgent(target) ==
  CASE target \in {"sales_agent", "sales"} -> "sales_agent"
    [] target \in {"order_agent", "order", "u8BA2u5355"} -> "order_agent"
    [] target \in {"knowledge_agent", "knowledge"} -> "knowledge_agent"
    [] target \in {"styling_agent", "styling", "u7A7Fu642D"} -> "styling_agent"
    [] OTHER -> ""

\* the handoff detection without the mapping to a registered agent: whatever
\* the first suggestion normalizes to becomes the target
HandoffUnmapped(response, ctx) ==
  LET next_action == IF response.next_action # "" THEN response.next_action ELSE "continue"
      suggested   == response.suggested_agents
  IN  IF next_action = "transfer" /\ suggested # << >>
        THEN [ctx EXCEPT !.handoff_pending = "true",
                         !.handoff_target = normalize_agent_id(suggested[1])]
        ELSE ctx

\* lines 569-602: session.context after the handoff detection
HandoffDetection(response, ctx) ==
  LET next_action == IF response.next_action # "" THEN response.next_action ELSE "continue"
      suggested   == response.suggested_agents
  IN  IF next_action = "transfer" /\ suggested # << >>
           /\ MappedAgent(normalize_agent_id(suggested[1])) # ""
        THEN [ctx EXCEPT !.handoff_pending = "true",
                         !.handoff_target = MappedAgent(normalize_agent_id(suggested[1]))]
        ELSE ctx

----------------------------------------------------------------------------
(* _update_session_state, _update_performance_stats, _handle_error          *)

\* session.context.update(final_context): the keys of final_context win
ContextUpdate(ctx, final_context) ==
  [ handoff_pending |->
      IF final_context.handoff_pending # "" THEN final_context.handoff_pending
      ELSE ctx.handoff_pending,
    handoff_target |->
      IF final_context.handoff_target # "" THEN final_context.handoff_target
      ELSE ctx.handoff_target,
    workflow_type |->
      IF final_context.workflow_type # "" THEN final_context.workflow_type
      ELSE ctx.workflow_type,
    has_results |-> ctx.has_results \/ final_context.has_results ]

\* _update_session_state (lines 639-674); the key "performance_metrics" is
\* never in session.performance_metrics, so the counters restart every turn
UpdateSessionState(session, msg, response, result) ==
  [ session EXCEPT
      !.current_agents = AgentIds(result.results),
      !.collaboration_tasks =
        IF \E i \in 1..Len(session.collaboration_tasks) :
             session.collaboration_tasks[i] = result.task_id
          THEN session.collaboration_tasks
          ELSE Append(session.collaboration_tasks, result.task_id),
      !.context = ContextUpdate(session.context, result.final_context),
      !.conversation_history =
        Append(session.conversation_history, AgentRecord(msg, response)),
      !.performance_metrics =
        [ present |-> TRUE,
          total_interactions |-> 0 + 1,
          successful_collaborations |-> IF result.success THEN 0 + 1 ELSE 0 ] ]

\* the values a collaboration_mode is modelled to take
WorkflowTypes ==
  {"none", "single", "parallel", "sequential", "consultation", UnhashableMode}

\* `workflow_type not in self.stats["collaboration_patterns"]` raises
\* TypeError for an unhashable workflow_type
StatsRaises(result) == result.workflow_type = UnhashableMode

\* number of entries of results for agent_id
RECURSIVE CountAgent(_, _)
CountAgent(results, agent_id) ==
  IF results = << >> THEN 0
  ELSE (IF Head(results).agent_id = agent_id THEN 1 ELSE 0)
         + CountAgent(Tail(results), agent_id)

\* _update_performance_stats up to the point where it raises or ends
\* (lines 676-698); response times are not modelled
UpdatePerformanceStats(st, result) ==
  [ total_messages |-> st.total_messages + 1,
    successful_collaborations |->
      st.successful_collaborations + (IF result.success THEN 1 ELSE 0),
    agent_usage |->
      [a \in KnownAgents |-> st.agent_usage[a] + CountAgent(result.results, a)],
    collaboration_patterns |->
      [w \in WorkflowTypes |->
         st.collaboration_patterns[w]
           + (IF ~StatsRaises(result) /\ w = result.workflow_type THEN 1 ELSE 0)] ]

\* lines 700-708 with update_agent_performance: one call per result entry,
\* each with success = collaboration_result["success"]
UpdateAgentPerformance(perf, result) ==
  [a \in DOMAIN perf |->
     [ total_calls |-> perf[a].total_calls + CountAgent(result.results, a),
       success_calls |->
         perf[a].success_calls
           + (IF result.success THEN CountAgent(result.results, a) ELSE 0) ] ]

\* the last resort of _handle_error (lines 722-728)
SystemErrorResponse ==
  Response(<< "system_error_text" >>, "system", 1, "human_handoff", << >>, TRUE,
           NoCollaborationInfo)

\* _handle_error without its inner try/except: the reception agent's
\* exception reaches the caller of process_message
HandleErrorUnguarded(outcome) ==
  IF outcome.raised
    THEN [raised |-> TRUE, response |-> NoReturn]
    ELSE [raised |-> FALSE,
          response |-> Response(outcome.response.content, "reception_agent",
                                outcome.response.confidence,
                                outcome.response.next_action,
                                outcome.response.suggested_agents,
                                FALSE, NoCollaborationInfo)]

\* what process_message hands to its caller from _handle_error: the reception
\* agent's own response, or the last resort when that call raised
HandleErrorResult(outcome) ==
  IF outcome.raised
    THEN [raised |-> FALSE, response |-> SystemErrorResponse]
    ELSE [raised |-> FALSE,
          response |-> Response(outcome.response.content, "reception_agent",
                                outcome.response.confidence,
                                outcome.response.next_action,
                                outcome.response.suggested_agents,
                                FALSE, NoCollaborationInfo)]

----------------------------------------------------------------------------
(* The environment: callers, the analysis LLM and the agents                *)

UserIds == { << "u" >> }
ConvIds == { << "c" >> }

\* user ids and conversation ids of the session-store specification: "a" and
\* "a_b", "c" and "b_c"
StoreUserIds == { << "a" >>, << "a", "_", "b" >> }
StoreConvIds == { << "c" >>, << "b", "_", "c" >> }

AllKeys ==
  { SessionKey(u, c) : u \in UserIds \cup StoreUserIds, c \in ConvIds \cup StoreConvIds }

\* the utterances users send
Utterances == { UThanks, UOk, UOkOrder, UDate, UBuy, UToSales }

\* the keyword matches of every utterance, computed once
\* the utterances of the routing specification: order intent alone, with an
\* affirmative word, and with styling words, and the explicit transfer
\* phrases, after a sales or a styling turn
RouteUtterances ==
  { UBuy, UDate, UToOrder, UOkOrder, UOrderStyle, UToKnowledge, UToStyling }

MatchTable == [u \in Utterances \cup RouteUtterances |-> Matches(u)]

LlmAgent(aid, role) == [agent_id |-> aid, role |-> role]

LlmOutput(parsed, requires, mode, agents) ==
  [ parsed |-> parsed, requires_collaboration |-> requires,
    collaboration_mode |-> mode, recommended_agents |-> agents ]

\* what the analysis LLM answers: nothing usable; a sales/knowledge pair with
\* the roles and the mode left out; two primaries; a mode that is a JSON array;
\* three agents with explicit roles
LlmOutputs ==
  { LlmOutput(FALSE, FALSE, "", << >>),
    LlmOutput(TRUE, TRUE, "",
      << LlmAgent("sales_agent", ""), LlmAgent("knowledge_agent", "") >>),
    LlmOutput(TRUE, TRUE, "parallel",
      << LlmAgent("styling_agent", "primary"), LlmAgent("sales_agent", "primary") >>),
    LlmOutput(TRUE, FALSE, UnhashableMode,
      << LlmAgent("reception_agent", "primary") >>),
    LlmOutput(TRUE, TRUE, "parallel",
      << LlmAgent("knowledge_agent", "primary"), LlmAgent("order_agent", "support"),
         LlmAgent("reception_agent", "support") >>) }

AgentReply(content, next_action, suggested, metadata_is_map) ==
  [ raised |-> FALSE,
    response |-> [content |-> content, confidence |-> 9, next_action |-> next_action,
                  suggested_agents |-> suggested, metadata_is_map |-> metadata_is_map] ]

AgentRaises == [raised |-> TRUE, response |-> NoResponse]

\* what agent_id's process_message may do when it is the primary: raise, or
\* answer with its text and continue, suggest a transfer, or carry metadata
\* that is not a mapping
PrimaryOutcomes(agent_id) ==
  { AgentRaises,
    AgentReply(<< agent_id >>, "continue", << >>, TRUE),
    AgentReply(<< agent_id >>, "transfer", << "sales" >>, TRUE),
    AgentReply(<< agent_id >>, "transfer", << "Order" >>, TRUE),
    AgentReply(<< agent_id >>, "transfer", << "billing", "styling" >>, TRUE),
    AgentReply(<< agent_id >>, "", << >>, FALSE) }

\* what it may do as a support or as the fallback: of a support's response
\* only the content is ever read
SupportOutcomes(agent_id) ==
  { AgentRaises, AgentReply(<< agent_id >>, "continue", << >>, TRUE) }

----------------------------------------------------------------------------
(* State                                                                    *)

NoTask ==
  [task_id |-> 0, workflow_type |-> "", primary_agent |-> "",
   support_agents |-> << >>, context_shared |-> FALSE]

NoAnalysis ==
  [requires_collaboration |-> FALSE, collaboration_mode |-> "",
   recommended_agents |-> << >>, task_priority |-> "", fallback_agent |-> ""]

\* the entry of a support invocation that has not finished
PendingEntry == [agent_id |-> "", role |-> "", error |-> "pending", response |-> NoResponse]

\* a slot with no process_message call in it
IdleTurn ==
  [ pc |-> "idle", sess |-> 0, user_id |-> << >>, conversation_id |-> << >>,
    msg |-> 0, content |-> << >>, analysis |-> NoAnalysis, task |-> NoTask,
    results |-> << >>, entries |-> << >>, completed |-> << >>,
    support_message |-> NoMessage,
    raised_at |-> "", fallback |-> "", fallback_reply |-> NoResponse,
    ret |-> NoReturn ]

Init ==
  /\ sessions = [k \in AllKeys |-> 0]
  /\ heap = << >>
  /\ turn = [t \in Slots |-> IdleTurn]
  /\ arrivals = 0
  /\ stats = [ total_messages |-> 0, successful_collaborations |-> 0,
               agent_usage |-> [a \in KnownAgents |-> 0],
               collaboration_patterns |-> [w \in WorkflowTypes |-> 0] ]
  /\ agentPerf = [a \in KnownAgents |-> [total_calls |-> 0, success_calls |-> 0]]
  /\ cleanup = [calls |-> 0, inactive_hours |-> 0, ret |-> 0]

\* the session object a turn works on
SessionOf(t) == heap[turn[t].sess]

----------------------------------------------------------------------------
(* process_message, one action per stretch between two awaits               *)

\* lines 112-129: get or create the session, record the user message, and
\* await the analysis LLM
StartTurn(t, user_id, session_id, content, budget) ==
  LET key    == SessionKey(user_id, session_id)
      fresh  == sessions[key] = 0
      obj    == IF fresh THEN Len(heap) + 1 ELSE sessions[key]
      now    == arrivals + 1
      before == IF fresh THEN NewSession(user_id, session_id, now) ELSE heap[obj]
      after  == [before EXCEPT
                   !.last_active = now,
                   !.conversation_history = Append(@, UserRecord(now))]
  IN  /\ turn[t].pc = "idle"
      /\ arrivals < budget
      /\ arrivals' = now
      /\ sessions' = [sessions EXCEPT ![key] = obj]
      /\ heap' = IF fresh THEN Append(heap, after) ELSE [heap EXCEPT ![obj] = after]
      /\ turn' = [turn EXCEPT ![t] =
                    [IdleTurn EXCEPT !.pc = "analyzing", !.sess = obj,
                                     !.user_id = user_id,
                                     !.conversation_id = session_id,
                                     !.msg = now, !.content = content]]
      /\ UNCHANGED <<stats, agentPerf, cleanup>>

\* lines 147-157 and 159-161: fuse, update the session and the statistics and
\* return, or enter _handle_error and await the reception agent; `session` is
\* the turn's session object as this stretch of the turn has left it so far
FinishTurn(t, me, session, results) ==
  LET result   == CollaborationResult(me.task, results,
                    FinalContext(me.task, session.context, EffectiveWorkflow(me.task)))
      response == FusedResponse(result)
      detected == [session EXCEPT !.context = HandoffDetection(response, session.context)]
      updated  == UpdateSessionState(detected, me.msg, response, result)
  IN  IF FuseRaises(result)
        THEN /\ turn' = [turn EXCEPT ![t] =
                           [me EXCEPT !.pc = "fallback", !.results = results,
                                      !.raised_at = "fuse"]]
             /\ heap' = [heap EXCEPT ![me.sess] = session]
             /\ UNCHANGED <<stats, agentPerf>>
        ELSE /\ heap' = [heap EXCEPT ![me.sess] = updated]
             /\ stats' = UpdatePerformanceStats(stats, result)
             /\ IF StatsRaises(result)
                  THEN /\ turn' = [turn EXCEPT ![t] =
                                     [me EXCEPT !.pc = "fallback", !.results = results,
                                                !.raised_at = "stats"]]
                       /\ UNCHANGED agentPerf
                  ELSE /\ turn' = [turn EXCEPT ![t] =
                                     [me EXCEPT !.pc = "done", !.results = results,
                                                !.ret = response]]
                       /\ agentPerf' = UpdateAgentPerformance(agentPerf, result)

\* lines 141-192: with the primary's entry in hand, start the supports and
\* await them together, or finish when there are none; a support missing from
\* the registry has its entry at once
LaunchSupports(t, me, session, primary_entry) ==
  LET support_ids == EffectiveSupportIds(me.task)
  IN  IF support_ids = << >>
        THEN FinishTurn(t, me, session, << primary_entry >>)
        ELSE /\ turn' = [turn EXCEPT ![t] =
                           [me EXCEPT
                              !.pc = "supports",
                              !.results = << primary_entry >>,
                              !.support_message =
                                SupportMessage(me.task, me.content, primary_entry),
                              !.entries =
                                [i \in 1..Len(support_ids) |->
                                   IF support_ids[i] \in KnownAgents THEN PendingEntry
                                   ELSE ResultEntry(support_ids[i], "support", AgentRaises)],
                              !.completed = << >>]]
             /\ heap' = [heap EXCEPT ![me.sess] = session]
             /\ UNCHANGED <<stats, agentPerf>>

\* lines 126-145 and 122-130: the LLM has answered; validate, apply the
\* override rules, build the task and call the primary agent, which is awaited
\* unless the registry does not have it
AnalysisReturn(t, llm) ==
  LET me       == turn[t]
      session  == SessionOf(t)
      analysis == ApplyOverrideRules(MatchTable[me.content], AnalyzeCollaborationNeed(llm),
                                     session.current_agents, session.context)
      context  == ContextAfterOverride(MatchTable[me.content], session.context)
      routed   == [session EXCEPT !.context = context]
      task     == CreateCollaborationTask(analysis, me.msg, context)
      called   == [me EXCEPT !.pc = "primary", !.analysis = analysis, !.task = task]
  IN  /\ me.pc = "analyzing"
      /\ IF task.primary_agent \in KnownAgents
           THEN /\ heap' = [heap EXCEPT ![me.sess] = routed]
                /\ turn' = [turn EXCEPT ![t] = called]
                /\ UNCHANGED <<stats, agentPerf>>
           ELSE LaunchSupports(t, called, routed,
                               ResultEntry(task.primary_agent, "primary", AgentRaises))
      /\ UNCHANGED <<sessions, arrivals, cleanup>>

\* lines 129-130: the primary agent has answered or raised
PrimaryReturn(t, outcome) ==
  /\ turn[t].pc = "primary"
  /\ LaunchSupports(t, turn[t], SessionOf(t),
                    ResultEntry(turn[t].task.primary_agent, "primary", outcome))
  /\ UNCHANGED <<sessions, arrivals, cleanup>>

\* one support invocation of the gather has finished
SupportReturn(t, i, outcome) ==
  /\ turn[t].pc = "supports"
  /\ i \in 1..Len(turn[t].entries)
  /\ turn[t].entries[i] = PendingEntry
  /\ turn' = [turn EXCEPT ![t].entries[i] =
                ResultEntry(EffectiveSupportIds(turn[t].task)[i], "support", outcome),
              ![t].completed = Append(@, i)]
  /\ UNCHANGED <<sessions, heap, arrivals, stats, agentPerf, cleanup>>

\* lines 187-206: the gather is complete and the executor returns
GatherReturn(t) ==
  /\ turn[t].pc = "supports"
  /\ \A i \in 1..Len(turn[t].entries) : turn[t].entries[i] # PendingEntry
  /\ FinishTurn(t, turn[t], SessionOf(t),
                turn[t].results \o GatherResults(turn[t].entries, turn[t].completed))
  /\ UNCHANGED <<sessions, arrivals, cleanup>>

\* lines 715-728: the reception agent has answered the fallback call or raised
FallbackReturn(t, outcome) ==
  /\ turn[t].pc = "fallback"
  /\ turn' = [turn EXCEPT ![t].pc = IF HandleErrorResult(outcome).raised
                                      THEN "raised" ELSE "done",
                          ![t].fallback = IF outcome.raised THEN "raised" ELSE "answered",
                          ![t].fallback_reply = outcome.response,
                          ![t].ret = HandleErrorResult(outcome).response]
  /\ UNCHANGED <<sessions, heap, arrivals, stats, agentPerf, cleanup>>

\* the caller has the response; the slot is free for the next call
ReturnToCaller(t) ==
  /\ turn[t].pc \in {"done", "raised"}
  /\ turn' = [turn EXCEPT ![t] = IdleTurn]
  /\ UNCHANGED <<sessions, heap, arrivals, stats, agentPerf, cleanup>>

\* one caller at a time: every turn returns before the next call arrives
Next ==
  \/ \E u \in UserIds, c \in ConvIds, content \in Utterances :
       StartTurn(1, u, c, content, MaxTurns)
  \/ \E llm \in LlmOutputs : AnalysisReturn(1, llm)
  \/ \E o \in PrimaryOutcomes(turn[1].task.primary_agent) : PrimaryReturn(1, o)
  \/ \E i \in 1..Len(turn[1].entries) :
       \E o \in SupportOutcomes(EffectiveSupportIds(turn[1].task)[i]) :
         SupportReturn(1, i, o)
  \/ GatherReturn(1)
  \/ \E o \in SupportOutcomes("reception_agent") : FallbackReturn(1, o)
  \/ ReturnToCaller(1)

Spec == Init /\ [][Next]_vars

----------------------------------------------------------------------------
(* Concurrent callers, with a smaller environment                           *)

ConcUtterances == { UThanks, UOk }

ConcLlmOutputs == { LlmOutput(FALSE, FALSE, "", << >>) }

ConcPrimaryOutcomes(agent_id) ==
  { AgentReply(<< agent_id >>, "continue", << >>, TRUE),
    AgentReply(<< agent_id >>, "transfer", << "sales" >>, TRUE),
    AgentReply(<< agent_id >>, "transfer", << "billing", "styling" >>, TRUE),
    AgentReply(<< agent_id >>, "", << >>, FALSE) }

\* process_message calls overlap: up to NumSlots are in flight at once
NextConc ==
  \/ \E t \in Slots, u \in UserIds, c \in ConvIds, content \in ConcUtterances :
       StartTurn(t, u, c, content, MaxTurnsConc)
  \/ \E t \in Slots, llm \in ConcLlmOutputs : AnalysisReturn(t, llm)
  \/ \E t \in Slots : \E o \in ConcPrimaryOutcomes(turn[t].task.primary_agent) :
       PrimaryReturn(t, o)
  \/ \E t \in Slots : \E i \in 1..Len(turn[t].entries) :
       \E o \in SupportOutcomes(EffectiveSupportIds(turn[t].task)[i]) :
         SupportReturn(t, i, o)
  \/ \E t \in Slots : GatherReturn(t)
  \/ \E t \in Slots : \E o \in SupportOutcomes("reception_agent") : FallbackReturn(t, o)
  \/ \E t \in Slots : ReturnToCaller(t)

SpecConc == Init /\ [][NextConc]_vars

----------------------------------------------------------------------------
(* A long conversation of one caller, with the smallest environment         *)

LongPrimaryOutcomes(agent_id) ==
  { AgentReply(<< agent_id >>, "continue", << >>, TRUE),
    AgentReply(<< agent_id >>, "", << >>, FALSE) }

NextLong ==
  \/ \E u \in UserIds, c \in ConvIds : StartTurn(1, u, c, UThanks, MaxTurnsLong)
  \/ \E llm \in ConcLlmOutputs : AnalysisReturn(1, llm)
  \/ \E o \in LongPrimaryOutcomes(turn[1].task.primary_agent) : PrimaryReturn(1, o)
  \/ \E o \in SupportOutcomes("reception_agent") : FallbackReturn(1, o)
  \/ ReturnToCaller(1)

SpecLong == Init /\ [][NextLong]_vars

----------------------------------------------------------------------------
(* Routing: one caller, order utterances, an LLM that names an agent the    *)
(* registry does not have                                                   *)

RouteLlmOutputs ==
  { LlmOutput(FALSE, FALSE, "", << >>),
    LlmOutput(TRUE, TRUE, "",
      << LlmAgent("sales_agent", ""), LlmAgent("knowledge_agent", "") >>),
    LlmOutput(TRUE, TRUE, "parallel",
      << LlmAgent("billing_agent", "primary"), LlmAgent("styling_agent", "support") >>) }

NextRoute ==
  \/ \E u \in UserIds, c \in ConvIds, content \in RouteUtterances :
       StartTurn(1, u, c, content, MaxTurnsRoute)
  \/ \E llm \in RouteLlmOutputs : AnalysisReturn(1, llm)
  \/ \E o \in LongPrimaryOutcomes(turn[1].task.primary_agent) : PrimaryReturn(1, o)
  \/ \E i \in 1..Len(turn[1].entries) :
       \E o \in SupportOutcomes(EffectiveSupportIds(turn[1].task)[i]) :
         SupportReturn(1, i, o)
  \/ GatherReturn(1)
  \/ \E o \in SupportOutcomes("reception_agent") : FallbackReturn(1, o)
  \/ ReturnToCaller(1)

SpecRoute == Init /\ [][NextRoute]_vars

\* The conversation of SpecLong where the analysis LLM, the reception fallback and
\* the caller always come back, and the primary agent may never return: no
\* fairness is assumed of its invocation, and the code sets no timer on it
SpecHang ==
  /\ Init
  /\ [][NextLong]_vars
  /\ WF_vars(\E llm \in ConcLlmOutputs : AnalysisReturn(1, llm))
  /\ WF_vars(\E o \in SupportOutcomes("reception_agent") : FallbackReturn(1, o))
  /\ WF_vars(ReturnToCaller(1))

----------------------------------------------------------------------------
(* The session store: cleanup_inactive_sessions beside one caller whose     *)
(* user ids and conversation ids contain the separator of the session key   *)

\* the values of inactive_hours a cleanup is called with
SweepHours == 0..MaxIdleHours

\* every session the store holds, whatever its age
AllSessions(inactive_hours) == { k \in AllKeys : sessions[k] # 0 }

\* lines 861-866: the keys with session.last_active < cutoff_time. The clock
\* of the model is the number of arrivals and inactive_hours is counted in
\* arrivals; the cleanup runs after the last arrival and before the next, so
\* last_active < now - inactive_hours reads last_active <= arrivals - inactive_hours
InactiveSessions(inactive_hours) ==
  { k \in AllKeys :
      sessions[k] # 0 /\ heap[sessions[k]].last_active + inactive_hours <= arrivals }

\* cleanup_inactive_sessions(inactive_hours); it has no await, so it runs
\* between two steps of the turns in flight. A deleted entry leaves the
\* session object to whoever still holds a reference to it
CleanupInactiveSessions(inactive_hours) ==
  /\ cleanup.calls < MaxSweeps
  /\ sessions' = [k \in AllKeys |->
                    IF k \in InactiveSessions(inactive_hours) THEN 0 ELSE sessions[k]]
  /\ cleanup' = [calls |-> cleanup.calls + 1,
                 inactive_hours |-> inactive_hours,
                 ret |-> Cardinality(InactiveSessions(inactive_hours))]
  /\ UNCHANGED <<heap, turn, arrivals, stats, agentPerf>>

NextStore ==
  \/ \E u \in StoreUserIds, c \in StoreConvIds :
       StartTurn(1, u, c, UThanks, MaxTurnsStore)
  \/ \E llm \in ConcLlmOutputs : AnalysisReturn(1, llm)
  \/ \E o \in ConcPrimaryOutcomes(turn[1].task.primary_agent) : PrimaryReturn(1, o)
  \/ \E o \in SupportOutcomes("reception_agent") : FallbackReturn(1, o)
  \/ ReturnToCaller(1)
  \/ \E h \in SweepHours : CleanupInactiveSessions(h)

SpecStore == Init /\ [][NextStore]_vars

----------------------------------------------------------------------------
(* Properties                                                               *)

\* the turn in slot t has its response and has not yet handed it over
Returned(t) == turn[t].pc = "done"

\* the turn in slot t went through _handle_error
FellBack(t) == turn[t].raised_at # ""

\* C1: process_message never lets an exception reach its caller. When a step
\* of the turn raised, the caller gets the reception agent's response to the
\* message, and when the reception agent raised too, the response of agent
\* "system" with next_action human_handoff, confidence 0.1 and metadata.error
\* true.
C1_NeverPropagates ==
  \A t \in Slots :
    /\ turn[t].pc # "raised"
    /\ (Returned(t) /\ FellBack(t)) =>
         IF turn[t].fallback = "answered"
           THEN /\ turn[t].ret.agent_id = "reception_agent"
                /\ turn[t].ret.content = turn[t].fallback_reply.content
                /\ turn[t].ret.confidence = turn[t].fallback_reply.confidence
                /\ turn[t].ret.next_action = turn[t].fallback_reply.next_action
           ELSE /\ turn[t].fallback = "raised"
                /\ turn[t].ret.agent_id = "system"
                /\ turn[t].ret.next_action = "human_handoff"
                /\ turn[t].ret.confidence = 1
                /\ turn[t].ret.error

\* a turn whose fusing raised and whose reception fallback raised as well has
\* returned
C1_Witness ==
  \E t \in Slots :
    Returned(t) /\ turn[t].raised_at = "fuse" /\ turn[t].fallback = "raised"

\* every invocation of the turn in slot t raised: the primary, every support
\* and, where _handle_error ran, the reception agent it calls
AllAgentsRaised(t) ==
  /\ turn[t].results # << >>
  /\ \A i \in 1..Len(turn[t].results) : turn[t].results[i].error = "exception"
  /\ FellBack(t) => turn[t].fallback = "raised"

\* C2: when every agent invoked for a turn raises, process_message still
\* returns, and what it returns has next_action human_handoff, confidence 0.1
\* and metadata.error true.
C2_AllRaiseHumanHandoff ==
  \A t \in Slots :
    (Returned(t) /\ AllAgentsRaised(t)) =>
      /\ turn[t].ret.next_action = "human_handoff"
      /\ turn[t].ret.confidence = 1
      /\ turn[t].ret.error


\* two process_message calls of one conversation are in flight together
Overlap ==
  \E t1, t2 \in Slots :
    /\ t1 # t2
    /\ turn[t1].pc # "idle" /\ turn[t2].pc # "idle"
    /\ turn[t1].sess = turn[t2].sess

\* the transcript h holds two user_message records in a row
ConsecutiveUsers(h) ==
  \E i \in 1..(Len(h) - 1) :
    h[i].type = "user_message" /\ h[i + 1].type = "user_message"

\* C3: turns of one conversation are serialized: a second call does not touch
\* the session while a first is in flight, and the transcript never holds
\* two user_message records in a row.
C3_TurnsSerialized ==
  /\ ~Overlap
  /\ \A s \in 1..Len(heap) : ~ConsecutiveUsers(heap[s].conversation_history)

\* the record types the transcript h holds for message msg, in order
RECURSIVE TypesOf(_, _)
TypesOf(h, msg) ==
  IF h = << >> THEN << >>
  ELSE IF Head(h).msg = msg THEN << Head(h).type >> \o TypesOf(Tail(h), msg)
  ELSE TypesOf(Tail(h), msg)

\* C4: when process_message returns, fallback path included, the turn has
\* added exactly two records to conversation_history: one user_message and
\* one agent_response.
C4_TwoRecordsPerTurn ==
  \A t \in Slots :
    Returned(t) =>
      TypesOf(SessionOf(t).conversation_history, turn[t].msg)
        = << "user_message", "agent_response" >>

\* the known agents the suggestions name
RECURSIVE MappedSuggestions(_)
MappedSuggestions(suggested) ==
  IF suggested = << >> THEN {}
  ELSE (IF MappedAgent(normalize_agent_id(Head(suggested))) # ""
          THEN { MappedAgent(normalize_agent_id(Head(suggested))) } ELSE {})
       \cup MappedSuggestions(Tail(suggested))

\* the position in transcript h of the user_message record of message msg
UserIndex(h, msg) ==
  CHOOSE i \in 1..Len(h) : h[i].type = "user_message" /\ h[i].msg = msg

\* C5: when the previous turn of the session answered with next_action
\* transfer and a suggestion that maps to a known agent X, an affirmative
\* utterance on the next turn is routed with X as the primary of the task
\* that is executed.
C5_AffirmativeRoutesToSuggested ==
  \A t \in Slots :
    (turn[t].task # NoTask) =>
      LET h == SessionOf(t).conversation_history
          i == UserIndex(h, turn[t].msg)
      IN  ( /\ i > 1
            /\ h[i - 1].type = "agent_response"
            /\ h[i - 1].next_action = "transfer"
            /\ MappedSuggestions(h[i - 1].suggested_agents) # {}
            /\ MatchTable[turn[t].content].affirmative )
          => turn[t].task.primary_agent \in MappedSuggestions(h[i - 1].suggested_agents)

\* C6: when the fused response has next_action transfer and its first
\* suggestion normalizes to a known agent X, the finished turn leaves
\* handoff_pending = true and handoff_target = X in session.context, whatever
\* the two held before.
C6_TransferSetsHandoff ==
  \A t \in Slots :
    ( /\ Returned(t) /\ ~FellBack(t)
      /\ turn[t].ret.next_action = "transfer"
      /\ turn[t].ret.suggested_agents # << >>
      /\ normalize_agent_id(turn[t].ret.suggested_agents[1]) \in KnownAgents )
    => /\ SessionOf(t).context.handoff_pending = "true"
       /\ SessionOf(t).context.handoff_target
            = normalize_agent_id(turn[t].ret.suggested_agents[1])

\* C7: when _apply_override_rules runs with handoff_pending = true and
\* handoff_target X in session.context on an utterance that is affirmative
\* or asks for X, the analysis it returns has X as primary, consultation mode
\* and priority high, and handoff_pending is false afterwards.
C7_ConfirmedHandoffWins ==
  [][ \A t \in Slots :
        ( /\ turn[t].pc = "analyzing"
          /\ turn'[t].pc # "analyzing"
          /\ HandoffConfirmed(MatchTable[turn[t].content], SessionOf(t).context) )
        => /\ turn'[t].task.primary_agent = SessionOf(t).context.handoff_target
           /\ turn'[t].analysis.collaboration_mode = "consultation"
           /\ turn'[t].analysis.task_priority = "high"
           /\ heap'[turn[t].sess].context.handoff_pending = "false" ]_vars

\* C8: in every session, handoff_pending = true implies that handoff_target
\* is one of the five known agent ids.
C8_PendingTargetKnown ==
  \A s \in 1..Len(heap) :
    heap[s].context.handoff_pending = "true"
      => heap[s].context.handoff_target \in KnownAgents

\* a session has a handoff pending while another turn of it is in flight
C8_Witness ==
  \E t \in Slots :
    /\ turn[t].pc = "primary"
    /\ SessionOf(t).context.handoff_pending = "true"
    /\ SessionOf(t).context.handoff_target = "sales_agent"

\* C9: conversation_history never holds more than 20 records.
C9_TranscriptCapped ==
  \A s \in 1..Len(heap) : Len(heap[s].conversation_history) <= 20

\* execute_collaboration_task has returned to the turn in slot t
ExecutorReturned(t) ==
  turn[t].pc \in {"done", "fallback"} /\ turn[t].results # << >>

\* C10 as stated: results is the primary's entry followed by one entry per
\* agent of task.support_agents, in that order.
C10_ResultsInTaskOrder ==
  \A t \in Slots :
    ExecutorReturned(t) =>
      AgentIds(turn[t].results)
        = << turn[t].task.primary_agent >> \o turn[t].task.support_agents

\* C10, amended: results is the primary's entry followed by one entry per
\* support the executor invokes, in the order of task.support_agents with
\* sales_agent last when the executor added it for a styling primary,
\* whatever order the invocations complete in.
C10_ResultsInInvocationOrder ==
  \A t \in Slots :
    ExecutorReturned(t) =>
      /\ AgentIds(turn[t].results)
           = << turn[t].task.primary_agent >> \o EffectiveSupportIds(turn[t].task)
      /\ turn[t].results[1].role = "primary"
      /\ \A i \in 2..Len(turn[t].results) : turn[t].results[i].role = "support"

\* the executor returned after its second support finished before its first
C10_Witness ==
  \E t \in Slots :
    /\ ExecutorReturned(t)
    /\ Len(turn[t].results) = 3
    /\ turn[t].completed = << 2, 1 >>

\* the executor has called the supports of the turn in slot t
SupportsCalled(t) == turn[t].entries # << >>

\* C11 as stated: in a sequential workflow every support is called with a
\* derived message whose content is the primary response's content, and in a
\* parallel or consultation workflow with the original user message.
C11_SupportMessageByMode ==
  \A t \in Slots :
    SupportsCalled(t) =>
      /\ (turn[t].task.workflow_type = "sequential") =>
           /\ turn[t].support_message.derived
           /\ turn[t].support_message.source_agent = turn[t].task.primary_agent
           /\ turn[t].support_message.content = turn[t].results[1].response.content
      /\ (turn[t].task.workflow_type \in {"parallel", "consultation"}) =>
           /\ ~turn[t].support_message.derived
           /\ turn[t].support_message.content = turn[t].content

\* C11, amended: as above, except that in a sequential workflow whose primary
\* left no response the derived message carries the original content.
C11_SupportMessageByModeAndPrimary ==
  \A t \in Slots :
    SupportsCalled(t) =>
      /\ (turn[t].task.workflow_type = "sequential") =>
           /\ turn[t].support_message.derived
           /\ turn[t].support_message.source_agent = turn[t].task.primary_agent
           /\ turn[t].support_message.content =
                IF turn[t].results[1].error = ""
                  THEN turn[t].results[1].response.content
                  ELSE turn[t].content
      /\ (turn[t].task.workflow_type \in {"parallel", "consultation"}) =>
           /\ ~turn[t].support_message.derived
           /\ turn[t].support_message.content = turn[t].content

\* the supports of a sequential workflow are running on the primary's answer
C11_Witness ==
  \E t \in Slots :
    /\ turn[t].pc = "supports"
    /\ turn[t].task.workflow_type = "sequential"
    /\ turn[t].results[1].error = ""
    /\ turn[t].support_message.content = << turn[t].task.primary_agent >>

\* C12: in a parallel or consultation turn with supports, the supports'
\* invocations are started while the primary's invocation is in flight: when
\* the primary's invocation ends, the supports have already been called.
C12_SupportsOverlapPrimary ==
  [][ \A t \in Slots :
        ( /\ turn[t].pc = "primary"
          /\ turn'[t].pc # "primary"
          /\ turn[t].task.workflow_type \in {"parallel", "consultation"}
          /\ turn[t].task.support_agents # << >> )
        => SupportsCalled(t) ]_vars

\* C13: an agent whose process_message raised has an entry with an error and
\* no response; every other agent of the task is still invoked and has its
\* own entry, and execute_collaboration_task returns.
C13_FailureIsolated ==
  \A t \in Slots :
    /\ turn[t].raised_at # "execute"
    /\ ExecutorReturned(t) =>
         /\ Len(turn[t].results) = 1 + Len(EffectiveSupportIds(turn[t].task))
         /\ \A i \in 1..Len(turn[t].results) :
              /\ turn[t].results[i] # PendingEntry
              /\ (turn[t].results[i].error # "") =>
                   turn[t].results[i].response = NoResponse
              /\ (turn[t].results[i].error = "") =>
                   turn[t].results[i].response.content = << turn[t].results[i].agent_id >>

\* the executor returned with a failed primary and a support that answered
\* after it
C13_Witness ==
  \E t \in Slots :
    /\ ExecutorReturned(t)
    /\ Len(turn[t].results) >= 3
    /\ turn[t].results[1].error = "exception"
    /\ turn[t].results[2].error = "exception"
    /\ turn[t].results[3].error = ""

\* C15: when the primary's entry has an error and no response, the fuser
\* returns the safe error response: agent system, next_action retry,
\* confidence 0.5 and the error flag.
C15_FailedPrimarySafeError ==
  \A t \in Slots :
    ( /\ Returned(t) /\ ~FellBack(t)
      /\ turn[t].results # << >>
      /\ turn[t].results[PrimaryResultIndex(turn[t].results)].error # "" )
    => /\ turn[t].ret.agent_id = "system"
       /\ turn[t].ret.next_action = "retry"
       /\ turn[t].ret.confidence = 5
       /\ turn[t].ret.error

\* number of entries of recommended with role primary
RECURSIVE PrimaryCount(_)
PrimaryCount(recommended) ==
  IF recommended = << >> THEN 0
  ELSE (IF Head(recommended).role = "primary" THEN 1 ELSE 0)
         + PrimaryCount(Tail(recommended))

\* C16: the analysis handed to task building has exactly one recommended
\* agent with role primary.
C16_ExactlyOnePrimary ==
  \A t \in Slots :
    (turn[t].analysis # NoAnalysis) =>
      PrimaryCount(turn[t].analysis.recommended_agents) = 1

\* C18: after every turn that completes, session.current_agents is a
\* non-empty list of known agent ids.
C18_CurrentAgentsKnown ==
  \A t \in Slots :
    Returned(t) =>
      /\ SessionOf(t).current_agents # << >>
      /\ \A i \in 1..Len(SessionOf(t).current_agents) :
           SessionOf(t).current_agents[i] \in KnownAgents

\* C19: the returned response carries collaboration_info.participating_agents,
\* equal to session.current_agents after the turn and to the agent ids of the
\* turn's result entries.
C19_ParticipatingAgents ==
  \A t \in Slots :
    Returned(t) =>
      /\ turn[t].ret.collaboration_info.present
      /\ turn[t].ret.collaboration_info.participating_agents
           = SessionOf(t).current_agents
      /\ SessionOf(t).current_agents = AgentIds(turn[t].results)

\* C14: an agent invocation that never returns does not block the turn: it
\* is cut off, and every process_message call eventually returns a response.
C14_TurnEventuallyReturns ==
  (turn[1].pc # "idle") ~> Returned(1)

\* C17: recommended_agents of every analysis has between 1 and 5 entries,
\* all of them known agent ids.
C17_RecommendedKnown ==
  \A t \in Slots :
    (turn[t].analysis # NoAnalysis) =>
      LET rec == turn[t].analysis.recommended_agents
      IN  /\ Len(rec) >= 1 /\ Len(rec) <= 5
          /\ \A i \in 1..Len(rec) : rec[i].agent_id \in KnownAgents

\* C20: an utterance with an order keyword is routed with order_agent as the
\* primary and every other recommended agent as parallel support, whatever
\* else the utterance contains and whatever agents the session is stuck to.
C20_OrderIntentWins ==
  \A t \in Slots :
    (turn[t].analysis # NoAnalysis /\ MatchTable[turn[t].content].order) =>
      LET rec == turn[t].analysis.recommended_agents
      IN  /\ rec[1].agent_id = "order_agent" /\ rec[1].role = "primary"
          /\ \A i \in 2..Len(rec) :
               /\ rec[i].agent_id # "order_agent"
               /\ rec[i].role = "support"
               /\ rec[i].parallel
          /\ turn[t].task.primary_agent = "order_agent"

\* an utterance with order and styling words has been routed in a session
\* whose last turn had sales_agent in it
C20_Witness ==
  \E t \in Slots :
    /\ turn[t].pc = "primary"
    /\ turn[t].content = UOrderStyle
    /\ \E i \in 1..Len(SessionOf(t).current_agents) :
         SessionOf(t).current_agents[i] = "sales_agent"
    /\ Len(turn[t].analysis.recommended_agents) >= 2

\* C21: collaboration_mode is single exactly when the analysis has no support
\* agents: no analysis handed to the executor has mode single with supports,
\* and none has another mode with only a primary.
C21_SingleIffNoSupport ==
  \A t \in Slots :
    (turn[t].analysis # NoAnalysis) =>
      ( (turn[t].analysis.collaboration_mode = "single")
          <=> (SupportIds(turn[t].analysis.recommended_agents) = << >>) )

\* the agent an explicit transfer phrase of the utterance names, "" when the
\* utterance has none
ExplicitTarget(f) ==
  IF f.transfer_to_order THEN "order_agent"
  ELSE IF f.transfer_to_knowledge THEN "knowledge_agent"
  ELSE IF f.transfer_to_styling THEN "styling_agent"
  ELSE ""

\* C23: an utterance with an explicit transfer phrase for the order, knowledge
\* or styling agent is routed with that agent as the only primary, whatever
\* the LLM recommended and whatever agents the session is stuck to.
C23_ExplicitTransferWins ==
  \A t \in Slots :
    ( /\ turn[t].analysis # NoAnalysis
      /\ ExplicitTarget(MatchTable[turn[t].content]) # "" )
    => LET rec == turn[t].analysis.recommended_agents
       IN  /\ PrimaryCount(rec) = 1
           /\ rec[FirstPrimary(rec)].agent_id = ExplicitTarget(MatchTable[turn[t].content])
           /\ turn[t].task.primary_agent = ExplicitTarget(MatchTable[turn[t].content])

\* the turn in slot t has been routed and its session still holds the
\* current_agents the routing read
Routed(t) == turn[t].pc \in {"primary", "supports"}

\* C24: sales stickiness. When sales_agent is in session.current_agents and
\* the utterance has neither an explicit styling-transfer phrase nor an order
\* keyword, the turn keeps sales_agent as primary, a styling_agent entry is a
\* parallel support and knowledge_agent is a parallel support.
C24_SalesSticky ==
  \A t \in Slots :
    ( /\ Routed(t)
      /\ \E i \in 1..Len(SessionOf(t).current_agents) :
           SessionOf(t).current_agents[i] = "sales_agent"
      /\ ~MatchTable[turn[t].content].transfer_to_styling
      /\ ~MatchTable[turn[t].content].order )
    => LET rec == turn[t].analysis.recommended_agents
       IN  /\ turn[t].task.primary_agent = "sales_agent"
           /\ \A i \in 1..Len(rec) :
                (rec[i].agent_id = "styling_agent") =>
                  (rec[i].role = "support" /\ rec[i].parallel)
           /\ \E i \in 1..Len(rec) :
                /\ rec[i].agent_id = "knowledge_agent"
                /\ rec[i].role = "support"
                /\ rec[i].parallel

\* the entry of sales_agent among the results of the turn in slot t is a
\* support entry that comes after the primary's
SalesFollows(results) ==
  \E i \in 2..Len(results) :
    results[i].agent_id = "sales_agent" /\ results[i].role = "support"

\* C25: in every turn whose primary agent is styling_agent, sales_agent takes
\* part as a support called after styling has returned and with the derived
\* message, and workflow_type is sequential in the analysis, in the task and
\* in the collaboration result.
C25_StylingThenSales ==
  \A t \in Slots :
    (turn[t].task.primary_agent = "styling_agent") =>
      /\ turn[t].analysis.collaboration_mode = "sequential"
      /\ turn[t].task.workflow_type = "sequential"
      /\ \E i \in 1..Len(EffectiveSupportIds(turn[t].task)) :
           EffectiveSupportIds(turn[t].task)[i] = "sales_agent"
      /\ (turn[t].pc = "primary") => ~SupportsCalled(t)
      /\ SupportsCalled(t) =>
           /\ turn[t].results # << >>
           /\ turn[t].results[1].agent_id = "styling_agent"
           /\ turn[t].support_message.derived
           /\ turn[t].support_message.source_agent = "styling_agent"
      /\ ExecutorReturned(t) =>
           /\ SalesFollows(turn[t].results)
           /\ CollaborationResult(turn[t].task, turn[t].results,
                                  EmptyContext).workflow_type = "sequential"
           /\ (Returned(t) /\ ~FellBack(t)) =>
                turn[t].ret.collaboration_info.workflow_type = "sequential"

\* a turn that only the last rule made sequential has finished: the LLM named
\* styling_agent as primary in parallel mode for an utterance without keywords
C25_Witness ==
  \E t \in Slots :
    /\ Returned(t) /\ ~FellBack(t)
    /\ turn[t].task.primary_agent = "styling_agent"
    /\ turn[t].content = UThanks
    /\ SalesFollows(turn[t].results)
    /\ turn[t].ret.collaboration_info.workflow_type = "sequential"

\* the fused content of a turn whose primary is styling_agent in a sequential
\* workflow with a sales entry that has content
Concatenated(t) ==
  /\ turn[t].ret.collaboration_info.workflow_type = "sequential"
  /\ turn[t].results[1].agent_id = "styling_agent"
  /\ SalesContent(turn[t].results) # << >>

RECURSIVE CompletedTurns(_)
CompletedTurns(h) ==
  IF h = << >> THEN 0
  ELSE (IF Head(h).type = "agent_response" THEN 1 ELSE 0) + CompletedTurns(Tail(h))

\* C27: after n turns have completed on a session through the normal path,
\* performance_metrics.total_interactions is n and successful_collaborations
\* is the number of those turns whose collaboration result had success true
\* (every result the executor returns has).
C27_InteractionsCounted ==
  \A t \in Slots :
    (Returned(t) /\ ~FellBack(t)) =>
      /\ SessionOf(t).performance_metrics.total_interactions
           = CompletedTurns(SessionOf(t).conversation_history)
      /\ SessionOf(t).performance_metrics.successful_collaborations
           = CompletedTurns(SessionOf(t).conversation_history)

\* number of entries of results for agent_id that carry no error
RECURSIVE CountErrorFree(_, _)
CountErrorFree(results, agent_id) ==
  IF results = << >> THEN 0
  ELSE (IF Head(results).agent_id = agent_id /\ Head(results).error = "" THEN 1 ELSE 0)
         + CountErrorFree(Tail(results), agent_id)

\* C28: per-agent performance counts an invocation as successful only if the
\* agent's result entry has no error: a turn adds the number of the agent's
\* entries to total_calls and the number of its error-free entries to
\* success_calls, so an entry with an error leaves success_calls unchanged.
C28_SuccessNeedsNoError ==
  [][ \A t \in Slots :
        ( /\ turn[t].pc # "done"
          /\ turn'[t].pc = "done"
          /\ turn'[t].raised_at = "" )
        => \A a \in KnownAgents :
             /\ agentPerf'[a].total_calls
                  = agentPerf[a].total_calls + CountAgent(turn'[t].results, a)
             /\ agentPerf'[a].success_calls
                  = agentPerf[a].success_calls + CountErrorFree(turn'[t].results, a) ]_vars

\* the keys whose session was last active before the cutoff of a cleanup
\* called now with inactive_hours h
IdleKeys(h) ==
  { k \in AllKeys : sessions[k] # 0 /\ heap[sessions[k]].last_active + h <= arrivals }

\* the step is a call of cleanup_inactive_sessions
CleanupStep == cleanup'.calls = cleanup.calls + 1

\* the step starts a turn for a key the store does not hold
FreshStart(t) ==
  /\ turn[t].pc = "idle"
  /\ turn'[t].pc = "analyzing"
  /\ sessions[SessionKey(turn'[t].user_id, turn'[t].conversation_id)] = 0

\* C22: cleanup_inactive_sessions removes exactly the sessions whose
\* last_active is older than the cutoff, returns the number removed and
\* leaves every other session unchanged; the next message for a removed key
\* creates a fresh session, with no record but that message's, no
\* current_agents and an empty context.
C22_SweepRemovesIdle ==
  [][ /\ CleanupStep =>
           /\ \A k \in AllKeys :
                sessions'[k] = IF k \in IdleKeys(cleanup'.inactive_hours)
                                 THEN 0 ELSE sessions[k]
           /\ cleanup'.ret = Cardinality(IdleKeys(cleanup'.inactive_hours))
           /\ heap' = heap
      /\ \A t \in Slots :
           FreshStart(t) =>
             /\ turn'[t].sess = Len(heap) + 1
             /\ sessions'[SessionKey(turn'[t].user_id, turn'[t].conversation_id)]
                  = turn'[t].sess
             /\ heap'[turn'[t].sess].conversation_history = << UserRecord(turn'[t].msg) >>
             /\ heap'[turn'[t].sess].current_agents = << >>
             /\ heap'[turn'[t].sess].context = EmptyContext
             /\ \A s \in 1..Len(heap) : heap'[s] = heap[s] ]_vars

\* a cleanup removed the older of two sessions and kept the other, and the
\* next message for the removed key has created a third session object
C22_Witness ==
  /\ cleanup.calls = 1
  /\ cleanup.inactive_hours = 1
  /\ cleanup.ret = 1
  /\ turn[1].pc = "analyzing"
  /\ turn[1].sess = 3
  /\ heap[3].user_id = heap[1].user_id
  /\ heap[3].session_id = heap[1].session_id
  /\ sessions[SessionKey(heap[2].user_id, heap[2].session_id)] = 2

\* C29: two different (user_id, conversation_id) pairs never share a session:
\* the session a turn works on was created for the turn's own pair, and every
\* entry of the store holds the session of one pair only, also when the ids
\* contain the character "_".
C29_SessionsIsolated ==
  \A t \in Slots :
    (turn[t].pc # "idle") =>
      /\ SessionOf(t).user_id = turn[t].user_id
      /\ SessionOf(t).session_id = turn[t].conversation_id

\* C30: a session is never lost while one of its turns is in flight: at the
\* step that updates the session and returns, whatever cleanups ran since the
\* turn started, the store holds under the turn's key the session object the
\* turn worked on, with the turn's user and agent records and its
\* current_agents.
C30_SessionSurvivesTurn ==
  [][ \A t \in Slots :
        ( /\ turn[t].pc # "done"
          /\ turn'[t].pc = "done"
          /\ turn'[t].raised_at = "" )
        => LET key == SessionKey(turn'[t].user_id, turn'[t].conversation_id)
           IN  /\ sessions'[key] # 0
               /\ sessions'[key] = turn'[t].sess
               /\ TypesOf(heap'[turn'[t].sess].conversation_history, turn'[t].msg)
                    = << "user_message", "agent_response" >>
               /\ heap'[turn'[t].sess].current_agents = AgentIds(turn'[t].results) ]_vars

====
